---- MODULE Spec2Model ----
\* A model of the Star Tailors backend (src/app.py): the bill-number sequence
\* allocator get_next_sequence with its callers, the pure formatter
\* format_bill_no, and the four-stage workflow handler update_workflow_stage.
\*
\* Three specifications share the variables:
\*   Spec     requests that allocate bill numbers (get_next_sequence, create_bill),
\*            run by concurrent request handlers against the document store;
\*   SpecFmt  format_bill_no applied to bounded inputs;
\*   SpecWF   update_workflow_stage requests against a job;
\*   SpecStages  well-formed update_workflow_stage requests, long enough to take
\*            a job through all four stages;
\*   SpecNotes   update_workflow_stage requests whose bodies carry, or omit, notes
\*            and assigned_tailor;
\*   SpecJobs    Spec with backfill_jobs requests;
\*   SpecAllJobs every handler that writes a job (create_bill, backfill_jobs,
\*            create_job, update_workflow_stage), one request at a time;
\*   SpecStatus  update_job_status and update_workflow_stage requests on a job;
\*   SpecCounters  the requests of Spec, one at a time, with the handlers that
\*            delete customers, bills and jobs;
\*   SpecRace    update_workflow_stage run by concurrent handlers, its read of the
\*            job and its write as separate steps;
\*   SpecUpi     get_upi_settings and update_upi_settings run by concurrent
\*            handlers, with the cache between them.
EXTENDS Integers, Sequences, FiniteSets, TLC

\* ---------------------------------------------------------------- bounds

NumProcs == 2          \* concurrent request handlers
MaxRequests == 2       \* requests started in one behaviour of Spec
MaxFmtN == 1200        \* largest n given to format_bill_no (besides 12345)
MaxFmtNeg == 12        \* most negative n given to format_bill_no
MaxFmtWidth == 5       \* largest width given to format_bill_no
MaxClock == 4          \* last clock reading at which SpecWF accepts a request
MaxUpiRequests == 3    \* requests in one behaviour of SpecUpi
MaxStageUpdates == 4   \* accepted stage updates in one behaviour of SpecStages
MaxNoteUpdates == 2    \* accepted stage updates in one behaviour of SpecNotes
MaxJobUpdates == 2     \* last clock reading at which SpecAllJobs accepts a workflow request
MaxStatusClock == 4    \* last clock reading at which SpecStatus accepts a request

\* ------------------------------------------------------- optional values

\* Python's None and a present value, as sequences of length 0 and 1.
None == <<>>
Some(v) == <<v>>

\* -------------------------------------------------------- format_bill_no

Digit(d) == CASE d = 0 -> "0" [] d = 1 -> "1" [] d = 2 -> "2" [] d = 3 -> "3"
              [] d = 4 -> "4" [] d = 5 -> "5" [] d = 6 -> "6" [] d = 7 -> "7"
              [] d = 8 -> "8" [] d = 9 -> "9"

RECURSIVE DecDigits(_)
\* str(n) for n >= 0: the decimal digits, most significant first, as characters.
DecDigits(n) == IF n < 10 THEN <<Digit(n)>>
                ELSE DecDigits(n \div 10) \o <<Digit(n % 10)>>

\* str(int(n)) of an integer n.
str(n) == IF n < 0 THEN <<"-">> \o DecDigits(0 - n) ELSE DecDigits(n)

RECURSIVE Zeros(_)
Zeros(k) == IF k <= 0 THEN <<>> ELSE <<"0">> \o Zeros(k - 1)

\* A plausible slip: pad, then keep only the last `width` characters.
zfill_truncating(s, width) ==
    LET padded == Zeros(width - Len(s)) \o s
    IN SubSeq(padded, Len(padded) - width + 1, Len(padded))

\* str.zfill: zeros are inserted after a leading sign; a string already at least
\* `width` long is returned as it is.
zfill(s, width) ==
    IF Len(s) >= width THEN s
    ELSE IF Len(s) > 0 /\ Head(s) \in {"+", "-"}
         THEN <<Head(s)>> \o Zeros(width - Len(s)) \o Tail(s)
         ELSE Zeros(width - Len(s)) \o s

\* format_bill_no(n, width) on an integer n (int(n) raises on no integer, so the
\* except branch is not taken for these inputs).
format_bill_no(n, width) == zfill(str(n), width)

\* ------------------------------------------------------------------ state

VARIABLES
    connected,   \* the module-level collections are not None (app.py:95-178)
    db_up,       \* the store answers the next round trip (FALSE: it raises)
    idx_state,   \* the unique index on bills.bill_no: "pending", "created", "failed"
    counters,    \* counters collection: name -> seq, 0 when there is no document
    customers,   \* customers collection: the set of stored customer ids
    bills,       \* bills collection: _id -> document
    jobs,        \* jobs collection: _id -> document
    next_id,     \* the next ObjectId the store hands out
    pc,          \* per request handler: where it is in its handler
    call,        \* per request handler: the locals of the running handler
    resp,        \* per request handler: the last response it returned
    issued,      \* every return of get_next_sequence, in order of return
    nreq,        \* requests started so far
    clock,       \* datetime.now()
    wf_resp,     \* the last response of the workflow handlers
    settings,    \* the upi_settings document of settings_collection, if any
    cache,       \* the entry "upi_settings" of the process's TTLCache, if any
    upi_writes,  \* history: how many times update_upi_settings has written the store
    fmt_n, fmt_width, fmt_out   \* format_bill_no: its inputs and its result

vars == <<connected, db_up, idx_state, counters, customers, bills, jobs, next_id,
          pc, call, resp, issued, nreq, clock, wf_resp, settings, cache, upi_writes,
          fmt_n, fmt_width, fmt_out>>

seqVars == <<connected, db_up, idx_state, counters, customers, bills, jobs, next_id,
             pc, call, resp, issued, nreq>>
fmtVars == <<fmt_n, fmt_width, fmt_out>>
wfVars == <<clock, wf_resp>>
upiVars == <<settings, cache, upi_writes>>

Procs == 1..NumProcs
CounterNames == {"bill_no", "x"}

NoCall == [op |-> "none"]
NoResp == [code |-> 0]

\* The state of the store and of the handlers when the process has started on an
\* empty database: no counters, no bills, no jobs, no settings, one customer,
\* and nothing cached.
InitStore ==
    /\ db_up = TRUE
    /\ idx_state = "pending"
    /\ counters = [n \in CounterNames |-> 0]
    /\ customers = {"c1"}
    /\ bills = <<>>
    /\ jobs = <<>>
    /\ next_id = 1
    /\ pc = [p \in Procs |-> "idle"]
    /\ call = [p \in Procs |-> NoCall]
    /\ resp = [p \in Procs |-> NoResp]
    /\ issued = <<>>
    /\ settings = None
    /\ cache = None
    /\ upi_writes = 0
    /\ nreq = 0

InitFmtIdle == fmt_n = 0 /\ fmt_width = 0 /\ fmt_out = None
InitWFIdle == clock = 1 /\ wf_resp = NoResp

\* ------------------------------------------------- workflow stage documents

stage_names == <<"cutting", "stitching", "finishing", "packaging">>
valid_statuses == {"pending", "in_progress", "completed", "on_hold"}

\* One entry of default_stages.
default_stage(name, current_time) ==
    [name |-> name, status |-> "pending", started_at |-> None, completed_at |-> None,
     assigned_tailor |-> None, notes |-> None, updated_at |-> Some(current_time)]

default_stages(current_time) ==
    [i \in 1..Len(stage_names) |-> default_stage(stage_names[i], current_time)]

\* The job create_bill inserts for a new bill.
auto_job(bill_id, now) ==
    [tailor_id |-> None, bill_id |-> Some(bill_id), status |-> "assigned",
     updated_at |-> now, workflow_stages |-> default_stages(now),
     current_stage |-> "cutting", progress_percentage |-> 0]

\* ------------------------------------------------------ get_next_sequence

required_fields == <<"customer_id", "customer_name", "items">>

\* Strings ObjectId() accepts; any other raises.
ObjectIdStrings == {"c1", "c9"}

\* Bodies of POST /api/bills: the keys present, the customer id, the items.
BillRequests ==
    { [fields |-> {"customer_id", "customer_name", "items"}, customer_id |-> "c1", items |-> "list"],
      [fields |-> {"customer_name", "items"}, customer_id |-> "c1", items |-> "list"],
      [fields |-> {"customer_id", "items"}, customer_id |-> "c1", items |-> "list"],
      [fields |-> {"customer_id", "customer_name"}, customer_id |-> "c1", items |-> "list"],
      [fields |-> {"customer_id", "customer_name", "items"}, customer_id |-> "bad", items |-> "list"],
      [fields |-> {"customer_id", "customer_name", "items"}, customer_id |-> "c9", items |-> "list"],
      [fields |-> {"customer_id", "customer_name", "items"}, customer_id |-> "c1", items |-> "empty_list"],
      [fields |-> {"customer_id", "customer_name", "items"}, customer_id |-> "c1", items |-> "not_a_list"] }

\* The handler of p returns `r` and p is free for the next request.
Respond(p, r) ==
    /\ resp' = [resp EXCEPT ![p] = r]
    /\ pc' = [pc EXCEPT ![p] = "idle"]
    /\ call' = [call EXCEPT ![p] = NoCall]

\* The number count_documents({}) returns for the bills collection.
count_documents == Cardinality(DOMAIN bills)

\* A plausible slip: the filter is missing, so every counter is incremented.
inc_seq_every_name(name) == [n \in DOMAIN counters |-> counters[n] + 1]

\* find_one_and_update({'_id': name}, {'$inc': {'seq': 1}}, upsert=True): the
\* counters collection after the one atomic increment.
inc_seq(name) == [counters EXCEPT ![name] = @ + 1]

\* get_next_sequence returns `v` to its caller: a direct caller gets the number as
\* its response, create_bill goes on to insert the bill with it.
gns_return(p, v, via) ==
    /\ issued' = Append(issued, [name |-> call[p].name, value |-> v, via |-> via,
                                 proc |-> p, op |-> call[p].op])
    /\ IF call[p].op = "alloc"
       THEN Respond(p, [op |-> "alloc", code |-> 200, value |-> v])
       ELSE /\ pc' = [pc EXCEPT ![p] = "cb_insert_bill"]
            /\ call' = [call EXCEPT ![p] = [@ EXCEPT !.next_no = v,
                                                    !.alloc_at = Len(issued) + 1]]
            /\ UNCHANGED resp

\* A direct call get_next_sequence(name) starts. With no counters collection it
\* returns 1 at once (app.py:196-198); otherwise the store is asked next.
get_next_sequence_begin(p, name) ==
    /\ pc[p] = "idle"
    /\ nreq < MaxRequests
    /\ nreq' = nreq + 1
    /\ IF ~connected
       THEN /\ issued' = Append(issued, [name |-> name, value |-> 1, via |-> "no_counters",
                                         proc |-> p, op |-> "alloc"])
            /\ Respond(p, [op |-> "alloc", code |-> 200, value |-> 1])
       ELSE /\ pc' = [pc EXCEPT ![p] = "gns"]
            /\ call' = [call EXCEPT ![p] = [op |-> "alloc", name |-> name]]
            /\ UNCHANGED <<resp, issued>>
    /\ UNCHANGED <<connected, db_up, idx_state, counters, customers, bills, jobs, next_id>>
    /\ UNCHANGED <<wfVars, fmtVars, upiVars>>

\* The atomic increment succeeds and its new value is returned (app.py:201-207).
get_next_sequence_atomic(p) ==
    /\ pc[p] = "gns"
    /\ db_up
    /\ counters' = inc_seq(call[p].name)
    /\ gns_return(p, counters'[call[p].name], "atomic")
    /\ UNCHANGED <<connected, db_up, idx_state, customers, bills, jobs, next_id, nreq>>
    /\ UNCHANGED <<wfVars, fmtVars, upiVars>>

\* find_one_and_update raises: control is in the except branch (app.py:208).
get_next_sequence_raises(p) ==
    /\ pc[p] = "gns"
    /\ ~db_up
    /\ pc' = [pc EXCEPT ![p] = "gns_except"]
    /\ UNCHANGED <<connected, db_up, idx_state, counters, customers, bills, jobs, next_id,
                   call, resp, issued, nreq>>
    /\ UNCHANGED <<wfVars, fmtVars, upiVars>>

\* The except branch: count_documents({}) + 1 is returned (app.py:210), or
\* count_documents raises too and the exception leaves get_next_sequence.
get_next_sequence_fallback(p) ==
    /\ pc[p] = "gns_except"
    /\ IF db_up
       THEN gns_return(p, count_documents + 1, "count_fallback")
       ELSE /\ Respond(p, [op |-> call[p].op, code |-> 500])
            /\ UNCHANGED issued
    /\ UNCHANGED <<connected, db_up, idx_state, counters, customers, bills, jobs, next_id, nreq>>
    /\ UNCHANGED <<wfVars, fmtVars, upiVars>>

\* -------------------------------------------------------------- create_bill

\* POST /api/bills arrives with body `data`: the handler runs to its first store
\* round trip (app.py:861-906): required fields, demo mode, ObjectId().
create_bill_begin(p, data) ==
    /\ pc[p] = "idle"
    /\ nreq < MaxRequests
    /\ nreq' = nreq + 1
    /\ IF \E i \in 1..Len(required_fields) : required_fields[i] \notin data.fields
       THEN Respond(p, [op |-> "create_bill", code |-> 400, message |-> "Missing required field"])
       ELSE IF ~connected
       THEN Respond(p, [op |-> "create_bill", code |-> 201, demo |-> TRUE, bill_no |-> 1,
                        bill_no_str |-> format_bill_no(1, 3)])
       ELSE IF data.customer_id \notin ObjectIdStrings
       THEN Respond(p, [op |-> "create_bill", code |-> 400, message |-> "Invalid customer ID format"])
       ELSE /\ pc' = [pc EXCEPT ![p] = "cb_find_customer"]
            /\ call' = [call EXCEPT ![p] = [op |-> "create_bill", name |-> "bill_no",
                                            data |-> data, next_no |-> 0, alloc_at |-> 0,
                                            bill_id |-> 0]]
            /\ UNCHANGED resp
    /\ UNCHANGED <<connected, db_up, idx_state, counters, customers, bills, jobs, next_id, issued>>
    /\ UNCHANGED <<wfVars, fmtVars, upiVars>>

\* A plausible slip: the number is allocated before the customer is looked up,
\* so a request for an unknown customer uses one up.
create_bill_find_customer_allocating(p) ==
    /\ pc[p] = "cb_find_customer"
    /\ IF ~db_up
       THEN /\ Respond(p, [op |-> "create_bill", code |-> 500, message |-> "Failed to create bill"])
            /\ UNCHANGED counters
       ELSE IF call[p].data.customer_id \notin customers
       THEN /\ Respond(p, [op |-> "create_bill", code |-> 404, message |-> "Customer not found"])
            /\ counters' = inc_seq(call[p].name)
       ELSE IF call[p].data.items # "list"
       THEN /\ Respond(p, [op |-> "create_bill", code |-> 400, message |-> "Items must be a non-empty array"])
            /\ UNCHANGED counters
       ELSE /\ pc' = [pc EXCEPT ![p] = "gns"]
            /\ UNCHANGED <<call, resp, counters>>
    /\ UNCHANGED <<connected, db_up, idx_state, customers, bills, jobs, next_id,
                   issued, nreq>>
    /\ UNCHANGED <<wfVars, fmtVars, upiVars>>

\* customers_collection.find_one, then the items check (app.py:908-913); a
\* request that passes calls get_next_sequence('bill_no') next.
create_bill_find_customer(p) ==
    /\ pc[p] = "cb_find_customer"
    /\ IF ~db_up
       THEN Respond(p, [op |-> "create_bill", code |-> 500, message |-> "Failed to create bill"])
       ELSE IF call[p].data.customer_id \notin customers
       THEN Respond(p, [op |-> "create_bill", code |-> 404, message |-> "Customer not found"])
       ELSE IF call[p].data.items # "list"
       THEN Respond(p, [op |-> "create_bill", code |-> 400, message |-> "Items must be a non-empty array"])
       ELSE /\ pc' = [pc EXCEPT ![p] = "gns"]
            /\ UNCHANGED <<call, resp>>
    /\ UNCHANGED <<connected, db_up, idx_state, counters, customers, bills, jobs, next_id,
                   issued, nreq>>
    /\ UNCHANGED <<wfVars, fmtVars, upiVars>>

\* Whether the unique index on bill_no refuses a document with this bill_no.
duplicate_key(bill_no) ==
    idx_state = "created" /\ \E b \in DOMAIN bills : bills[b].bill_no = bill_no

\* bills_collection.insert_one(new_bill) (app.py:918-943). A store that is down,
\* or the unique index, raises: the handler answers 500 and stores nothing.
create_bill_insert_bill(p) ==
    /\ pc[p] = "cb_insert_bill"
    /\ IF ~db_up \/ duplicate_key(call[p].next_no)
       THEN /\ Respond(p, [op |-> "create_bill", code |-> 500, message |-> "Failed to create bill"])
            /\ UNCHANGED <<bills, next_id>>
       ELSE /\ bills' = bills @@ (next_id :> [bill_no |-> call[p].next_no,
                                              bill_no_str |-> format_bill_no(call[p].next_no, 3),
                                              customer_id |-> call[p].data.customer_id,
                                              alloc_at |-> call[p].alloc_at])
            /\ next_id' = next_id + 1
            /\ pc' = [pc EXCEPT ![p] = "cb_insert_job"]
            /\ call' = [call EXCEPT ![p] = [@ EXCEPT !.bill_id = next_id]]
            /\ UNCHANGED resp
    /\ UNCHANGED <<connected, db_up, idx_state, counters, customers, jobs, issued, nreq>>
    /\ UNCHANGED <<wfVars, fmtVars, upiVars>>

\* jobs_collection.insert_one(auto_job) inside its own try (app.py:946-972): a
\* failure is printed and swallowed. Then the 201 response (app.py:974-982).
create_bill_insert_job(p) ==
    /\ pc[p] = "cb_insert_job"
    /\ IF db_up
       THEN /\ jobs' = jobs @@ (next_id :> auto_job(call[p].bill_id, clock))
            /\ next_id' = next_id + 1
       ELSE UNCHANGED <<jobs, next_id>>
    /\ Respond(p, [op |-> "create_bill", code |-> 201, demo |-> FALSE,
                   bill_no |-> call[p].next_no,
                   bill_no_str |-> format_bill_no(call[p].next_no, 3)])
    /\ UNCHANGED <<connected, db_up, idx_state, counters, customers, bills, issued, nreq>>
    /\ UNCHANGED <<wfVars, fmtVars, upiVars>>

\* ------------------------------------------------ the store's surroundings

\* create_indexes, run once by the background thread (app.py:124-157): the unique
\* index on bill_no is built unless the store raises (it is down, or two stored
\* bills share a bill_no); the exception is printed and swallowed.
create_indexes ==
    /\ connected
    /\ idx_state = "pending"
    /\ idx_state' = IF db_up /\ \A a, b \in DOMAIN bills :
                                   bills[a].bill_no = bills[b].bill_no => a = b
                    THEN "created" ELSE "failed"
    /\ UNCHANGED <<connected, db_up, counters, customers, bills, jobs, next_id,
                   pc, call, resp, issued, nreq>>
    /\ UNCHANGED <<wfVars, fmtVars, upiVars>>

\* The store becomes unreachable, or reachable again.
store_flips ==
    /\ connected
    /\ db_up' = ~db_up
    /\ UNCHANGED <<connected, idx_state, counters, customers, bills, jobs, next_id,
                   pc, call, resp, issued, nreq>>
    /\ UNCHANGED <<wfVars, fmtVars, upiVars>>

\* ----------------------------------------------------------------- Spec

Init ==
    /\ connected \in BOOLEAN
    /\ InitStore
    /\ InitFmtIdle
    /\ InitWFIdle

Next ==
    \/ \E p \in Procs, name \in CounterNames : get_next_sequence_begin(p, name)
    \/ \E p \in Procs : get_next_sequence_atomic(p)
    \/ \E p \in Procs : get_next_sequence_raises(p)
    \/ \E p \in Procs : get_next_sequence_fallback(p)
    \/ \E p \in Procs, data \in BillRequests : create_bill_begin(p, data)
    \/ \E p \in Procs : create_bill_find_customer(p)
    \/ \E p \in Procs : create_bill_insert_bill(p)
    \/ \E p \in Procs : create_bill_insert_job(p)
    \/ create_indexes
    \/ store_flips

Spec == Init /\ [][Next]_vars

\* ------------------------------------------------- claims on the allocator

\* The returns of get_next_sequence(name), in order of return.
IssuedFor(name) == SelectSeq(issued, LAMBDA e : e.name = name)

\* Every number returned so far came from the atomic increment.
OnlyAtomic == \A i \in 1..Len(issued) : issued[i].via = "atomic"

\* C1: under any interleaving of get_next_sequence("bill_no") calls, no two calls
\* return the same integer.
C1_NoValueIssuedTwice ==
    LET s == IssuedFor("bill_no")
    IN \A i, j \in 1..Len(s) : i # j => s[i].value # s[j].value

\* C2: for a fixed counter name, every returned value is strictly greater than
\* every value returned before it for that name.
C2_StrictlyIncreasing ==
    \A name \in CounterNames :
        LET s == IssuedFor(name)
        IN \A i, j \in 1..Len(s) : i < j => s[i].value < s[j].value

\* C3: on a counter name never allocated from (every name, in the initial store),
\* the k-th call returns k.
C3_KthCallReturnsK ==
    \A name \in CounterNames :
        LET s == IssuedFor(name)
        IN \A k \in 1..Len(s) : s[k].value = k

\* C4: N calls on a counter holding v (v = 0 in the initial store) return N
\* pairwise distinct values, exactly v+1 .. v+N.
C4_ConsecutiveFromPreCall ==
    \A name \in CounterNames :
        LET s == IssuedFor(name)
        IN /\ {s[k].value : k \in 1..Len(s)} = 1..Len(s)
           /\ Cardinality({s[k].value : k \in 1..Len(s)}) = Len(s)

\* C5: with the counter store unreachable (no counters collection, or the
\* increment raises) get_next_sequence reports a failure and returns no number:
\* no caller can opt in to a fallback, so every number returned is one the atomic
\* increment produced, and create_bill invents none either.
C5_NoFabricatedNumber ==
    /\ OnlyAtomic
    /\ \A p \in Procs :
          (resp[p].code = 201 /\ resp[p].op = "create_bill") =>
              \E i \in 1..Len(issued) :
                  /\ issued[i].via = "atomic"
                  /\ issued[i].name = "bill_no"
                  /\ issued[i].value = resp[p].bill_no

\* C6: no two stored bills have the same bill_no, and bill numbers are strictly
\* increasing in the order they were allocated.
C6_BillNoUniqueIncreasing ==
    \A a, b \in DOMAIN bills :
        /\ a # b => bills[a].bill_no # bills[b].bill_no
        /\ bills[a].alloc_at < bills[b].alloc_at => bills[a].bill_no < bills[b].bill_no

\* What the atomic increment alone guarantees: while no number has come from a
\* fallback, C1-C4 and C6 hold.
AtomicPathSound ==
    OnlyAtomic => /\ C1_NoValueIssuedTwice
                  /\ C2_StrictlyIncreasing
                  /\ C3_KthCallReturnsK
                  /\ C4_ConsecutiveFromPreCall
                  /\ C6_BillNoUniqueIncreasing

\* --------------------------------------------------------------- SpecFmt

\* The integers format_bill_no is applied to.
FmtInputs == ((0 - MaxFmtNeg)..MaxFmtN) \cup {12345}

InitFmt ==
    /\ connected = TRUE
    /\ InitStore
    /\ InitWFIdle
    /\ fmt_n \in FmtInputs
    /\ fmt_width \in 0..MaxFmtWidth
    /\ fmt_out = None

\* One call format_bill_no(fmt_n, fmt_width); its result is kept in fmt_out.
format_bill_no_call ==
    /\ fmt_out = None
    /\ fmt_out' = Some(format_bill_no(fmt_n, fmt_width))
    /\ UNCHANGED <<fmt_n, fmt_width>>
    /\ UNCHANGED <<seqVars, wfVars, upiVars>>

NextFmt == format_bill_no_call

SpecFmt == InitFmt /\ [][NextFmt]_vars

\* The value of a decimal digit character, and of a string of them (int(s)).
DigitChars == {"0", "1", "2", "3", "4", "5", "6", "7", "8", "9"}
DigitValue(c) == CHOOSE d \in 0..9 : Digit(d) = c

RECURSIVE ParseInt(_)
ParseInt(s) == IF Len(s) = 0 THEN 0
               ELSE 10 * ParseInt(SubSeq(s, 1, Len(s) - 1)) + DigitValue(s[Len(s)])

RECURSIVE NumDigits(_)
NumDigits(n) == IF n < 10 THEN 1 ELSE 1 + NumDigits(n \div 10)

\* C7: for n >= 0, format_bill_no(n, width) is made of decimal digits only, is
\* max(width, number of digits of n) long (padded to width, never truncated), and
\* reads back as n; (7, 3) gives "007" and (12345, 3) gives "12345".
C7_FormatBillNo ==
    (fmt_out # None /\ fmt_n >= 0) =>
        LET out == fmt_out[1]
            nd == NumDigits(fmt_n)
        IN /\ \A i \in 1..Len(out) : out[i] \in DigitChars
           /\ Len(out) = IF fmt_width > nd THEN fmt_width ELSE nd
           /\ ParseInt(out) = fmt_n
           /\ (fmt_n = 7 /\ fmt_width = 3) => out = <<"0", "0", "7">>
           /\ (fmt_n = 12345 /\ fmt_width = 3) => out = <<"1", "2", "3", "4", "5">>

\* C7's case: a number with more digits than the width has been formatted.
C7_Witness ==
    /\ fmt_n = 12345
    /\ fmt_width = 3
    /\ fmt_out = Some(<<"1", "2", "3", "4", "5">>)

\* ---------------------------------------------------- update_workflow_stage

\* dict.get(key, default) on a request body: `keys` are the keys it holds.
get(data, key, default) == IF key \in data.keys THEN data[key] ELSE default

\* Python truthiness of an optional string: None and '' are false.
truthy(o) == o # None /\ o # Some("")

\* A plausible slip: any non-empty status is let through.
is_valid_status_any(new_status) == new_status # None

\* new_status in valid_statuses (app.py:1858-1859).
is_valid_status(new_status) == new_status \in {Some(v) : v \in valid_statuses}

\* A plausible slip: the completed branch stamps started_at, not completed_at.
updated_stage_swapped(stage, new_status, notes, assigned_tailor, current_time) ==
    LET old_status == stage.status
        s1 == [stage EXCEPT !.status = new_status, !.notes = notes,
                            !.updated_at = Some(current_time)]
        s2 == IF truthy(assigned_tailor)
              THEN [s1 EXCEPT !.assigned_tailor = assigned_tailor] ELSE s1
        s3 == IF old_status = "pending" /\ new_status = "in_progress"
              THEN [s2 EXCEPT !.started_at = Some(current_time)] ELSE s2
    IN IF new_status = "completed"
       THEN [s3 EXCEPT !.started_at = Some(current_time)] ELSE s3

\* A plausible slip: completing a stage that was never started also stamps its
\* started_at.
updated_stage_autostart(stage, new_status, notes, assigned_tailor, current_time) ==
    LET old_status == stage.status
        s1 == [stage EXCEPT !.status = new_status, !.notes = notes,
                            !.updated_at = Some(current_time)]
        s2 == IF truthy(assigned_tailor)
              THEN [s1 EXCEPT !.assigned_tailor = assigned_tailor] ELSE s1
        s3 == IF old_status = "pending" /\ new_status \in {"in_progress", "completed"}
              THEN [s2 EXCEPT !.started_at = Some(current_time)] ELSE s2
    IN IF new_status = "completed"
       THEN [s3 EXCEPT !.completed_at = Some(current_time)] ELSE s3

\* A plausible slip: a stage that leaves in_progress is stamped as completed,
\* whatever its new status.
updated_stage_stamps_on_leave(stage, new_status, notes, assigned_tailor, current_time) ==
    LET old_status == stage.status
        s1 == [stage EXCEPT !.status = new_status, !.notes = notes,
                            !.updated_at = Some(current_time)]
        s2 == IF truthy(assigned_tailor)
              THEN [s1 EXCEPT !.assigned_tailor = assigned_tailor] ELSE s1
        s3 == IF old_status = "pending" /\ new_status = "in_progress"
              THEN [s2 EXCEPT !.started_at = Some(current_time)] ELSE s2
    IN IF new_status = "completed" \/ (old_status = "in_progress" /\ new_status # "in_progress")
       THEN [s3 EXCEPT !.completed_at = Some(current_time)] ELSE s3

\* The body of the loop for the stage whose name matches (app.py:1883-1897).
updated_stage(stage, new_status, notes, assigned_tailor, current_time) ==
    LET old_status == stage.status
        s1 == [stage EXCEPT !.status = new_status, !.notes = notes,
                            !.updated_at = Some(current_time)]
        s2 == IF truthy(assigned_tailor)
              THEN [s1 EXCEPT !.assigned_tailor = assigned_tailor] ELSE s1
        s3 == IF old_status = "pending" /\ new_status = "in_progress"
              THEN [s2 EXCEPT !.started_at = Some(current_time)] ELSE s2
    IN IF new_status = "completed"
       THEN [s3 EXCEPT !.completed_at = Some(current_time)] ELSE s3

\* A plausible slip: the position is counted from 0, as enumerate does, and used
\* from 1.
stage_index_zero_based(workflow_stages, stage_name) ==
    IF \E i \in 1..Len(workflow_stages) : workflow_stages[i].name = stage_name
    THEN (CHOOSE i \in 1..Len(workflow_stages) :
            /\ workflow_stages[i].name = stage_name
            /\ \A k \in 1..(i - 1) : workflow_stages[k].name # stage_name) - 1
    ELSE 0

\* The index of the first stage named stage_name, 0 when there is none: the loop
\* breaks at the first match and stage_found stays False without one.
stage_index(workflow_stages, stage_name) ==
    IF \E i \in 1..Len(workflow_stages) : workflow_stages[i].name = stage_name
    THEN CHOOSE i \in 1..Len(workflow_stages) :
            /\ workflow_stages[i].name = stage_name
            /\ \A k \in 1..(i - 1) : workflow_stages[k].name # stage_name
    ELSE 0

\* A plausible slip: every stage that has left pending counts as done.
progress_of_touched(workflow_stages) ==
    (Cardinality({i \in 1..Len(workflow_stages) : workflow_stages[i].status # "pending"})
        * 100) \div Len(stage_names)

\* completed_stages / len(stage_names) * 100 (app.py:1906-1907); the quotient is
\* exact for 0..4 completed stages of 4.
progress_of(workflow_stages) ==
    (Cardinality({i \in 1..Len(workflow_stages) : workflow_stages[i].status = "completed"})
        * 100) \div Len(stage_names)

RECURSIVE scan_current_stage(_, _, _)
\* The loop that determines current_stage (app.py:1910-1916), from stage i on,
\* with current_stage = cur so far.
scan_current_stage(workflow_stages, i, cur) ==
    IF i > Len(workflow_stages) THEN cur
    ELSE IF workflow_stages[i].status \in {"in_progress", "on_hold"}
    THEN workflow_stages[i].name
    ELSE IF workflow_stages[i].status = "completed" /\ i < Len(stage_names)
    THEN scan_current_stage(workflow_stages, i + 1, stage_names[i + 1])
    ELSE scan_current_stage(workflow_stages, i + 1, cur)

\* A plausible slip: the first stage not yet completed, and the initial value
\* when there is none.
current_stage_first_open(workflow_stages) ==
    IF \E i \in 1..Len(workflow_stages) : workflow_stages[i].status # "completed"
    THEN workflow_stages[CHOOSE i \in 1..Len(workflow_stages) :
            /\ workflow_stages[i].status # "completed"
            /\ \A k \in 1..(i - 1) : workflow_stages[k].status = "completed"].name
    ELSE "cutting"

\* A plausible slip: the loop does not stop at the first stage under way, so the
\* last such stage wins.
current_stage_last_active(workflow_stages) ==
    LET active == {i \in 1..Len(workflow_stages) :
                      workflow_stages[i].status \in {"in_progress", "on_hold"}}
    IN IF active = {} THEN scan_current_stage(workflow_stages, 1, "cutting")
       ELSE workflow_stages[CHOOSE m \in active : \A k \in active : k <= m].name

\* current_stage after the loop, which starts from 'cutting' (app.py:1909-1916).
current_stage_of(workflow_stages) == scan_current_stage(workflow_stages, 1, "cutting")

\* A plausible slip: any stage under way makes the job in_progress.
overall_status_eager(progress_percentage) ==
    IF progress_percentage = 100 THEN "completed" ELSE "in_progress"

\* A plausible slip: the tests in the wrong order, so that 100 is caught by > 0.
overall_status_never_completed(progress_percentage) ==
    IF progress_percentage > 0 THEN "in_progress"
    ELSE IF progress_percentage = 100 THEN "completed"
    ELSE "assigned"

\* The overall job status (app.py:1918-1924).
overall_status_of(progress_percentage) ==
    IF progress_percentage = 100 THEN "completed"
    ELSE IF progress_percentage > 0 THEN "in_progress"
    ELSE "assigned"

\* The job document after the $set of app.py:1927-1938.
job_after_update(job, workflow_stages, now) ==
    [job EXCEPT !.workflow_stages = workflow_stages,
                !.current_stage = current_stage_of(workflow_stages),
                !.progress_percentage = progress_of(workflow_stages),
                !.status = overall_status_of(progress_of(workflow_stages)),
                !.updated_at = now]

\* PUT /api/jobs/<job_id>/workflow/<stage_name> with body `data`, the whole
\* handler (app.py:1846-1949). Only an accepted request stores a time, and the
\* clock moves on after it.
update_workflow_stage(job_id, stage_name, data) ==
    LET new_status == get(data, "status", None)
        notes == get(data, "notes", Some(""))
        assigned_tailor == get(data, "assigned_tailor", None)
        Reply(r) == wf_resp' = r /\ UNCHANGED <<jobs, clock>>
    IN
    /\ IF ~connected
       THEN Reply([op |-> "update_workflow_stage", code |-> 200,
                   message |-> "Database not available (demo mode)"])
       ELSE IF ~truthy(new_status)
       THEN Reply([op |-> "update_workflow_stage", code |-> 400, message |-> "Status is required"])
       ELSE IF ~is_valid_status(new_status)
       THEN Reply([op |-> "update_workflow_stage", code |-> 400, message |-> "Invalid status"])
       ELSE IF ~db_up
       THEN Reply([op |-> "update_workflow_stage", code |-> 500,
                   message |-> "Failed to update workflow stage"])
       ELSE IF job_id \notin DOMAIN jobs
       THEN Reply([op |-> "update_workflow_stage", code |-> 404, message |-> "Job not found"])
       ELSE LET job == jobs[job_id]
                i == stage_index(job.workflow_stages, stage_name)
            IN IF i = 0
               THEN Reply([op |-> "update_workflow_stage", code |-> 400,
                           message |-> "Invalid stage name"])
               ELSE LET workflow_stages ==
                            [job.workflow_stages EXCEPT
                                ![i] = updated_stage(@, new_status[1], notes,
                                                     assigned_tailor, clock)]
                    IN /\ jobs' = [jobs EXCEPT ![job_id] =
                                       job_after_update(job, workflow_stages, clock)]
                       /\ clock' = clock + 1
                       /\ wf_resp' = [op |-> "update_workflow_stage", code |-> 200,
                                      message |-> "Workflow stage updated successfully",
                                      stage |-> stage_name, new_status |-> new_status[1],
                                      current_stage |-> current_stage_of(workflow_stages),
                                      progress_percentage |-> progress_of(workflow_stages)]
    /\ UNCHANGED <<connected, db_up, idx_state, counters, customers, bills, next_id,
                   pc, call, resp, issued, nreq>>
    /\ UNCHANGED <<fmtVars, upiVars>>

\* --------------------------------------------------------------- create_job

\* The tailors collection (no modelled handler changes it).
tailors == {"t1"}

\* The job create_job inserts (app.py:1697-1720).
new_job(tailor_id, bill_id, now) ==
    [tailor_id |-> tailor_id, bill_id |-> bill_id, status |-> "assigned",
     updated_at |-> now, workflow_stages |-> default_stages(now),
     current_stage |-> "cutting", progress_percentage |-> 0]

\* POST /api/jobs with body `data`, the whole handler (app.py:1662-1735).
create_job(data) ==
    LET title == get(data, "title", None)
        tailor_id == get(data, "tailor_id", None)
        bill_id == get(data, "bill_id", None)
        Reply(r) == wf_resp' = r /\ UNCHANGED <<jobs, next_id, clock>>
    IN
    /\ IF ~connected
       THEN Reply([op |-> "create_job", code |-> 201,
                   message |-> "Job created successfully (demo mode)"])
       ELSE IF ~truthy(title) \/ ~truthy(tailor_id)
       THEN Reply([op |-> "create_job", code |-> 400,
                   message |-> "Title and tailor ID are required"])
       ELSE IF ~db_up
       THEN Reply([op |-> "create_job", code |-> 500, message |-> "Failed to create job"])
       ELSE IF tailor_id[1] \notin tailors
       THEN Reply([op |-> "create_job", code |-> 404, message |-> "Tailor not found"])
       ELSE /\ jobs' = jobs @@ (next_id :> new_job(tailor_id, bill_id, clock))
            /\ next_id' = next_id + 1
            /\ clock' = clock + 1
            /\ wf_resp' = [op |-> "create_job", code |-> 201,
                           message |-> "Job created successfully", job_id |-> next_id]
    /\ UNCHANGED <<connected, db_up, idx_state, counters, customers, bills,
                   pc, call, resp, issued, nreq>>
    /\ UNCHANGED <<fmtVars, upiVars>>

\* ----------------------------------------------------------------- SpecWF

\* Bodies of POST /api/jobs.
CreateJobRequests ==
    { [keys |-> {"title", "tailor_id"}, title |-> Some("Order 001"), tailor_id |-> Some("t1")],
      [keys |-> {"tailor_id"}, tailor_id |-> Some("t1")],
      [keys |-> {"title", "tailor_id"}, title |-> Some("Order 001"), tailor_id |-> Some("t9")] }

\* Requests PUT /api/jobs/<job_id>/workflow/<stage_name>: on the stored job, every
\* one of the four stages and an unknown one, with each of the four statuses, an
\* unknown one and a body without status; and one request on an unknown job.
WFStageNames == {"cutting", "stitching", "finishing", "packaging", "sewing"}
WFBodies ==
    { [keys |-> {"status"}, status |-> Some(v)] : v \in valid_statuses \cup {"done"} }
        \cup { [keys |-> {}] }
WFRequests ==
    { [job_id |-> 1, stage_name |-> n, data |-> d] : n \in WFStageNames, d \in WFBodies }
        \cup { [job_id |-> 9, stage_name |-> "cutting",
                data |-> [keys |-> {"status"}, status |-> Some("in_progress")]] }

InitWF ==
    /\ connected \in BOOLEAN
    /\ InitStore
    /\ InitFmtIdle
    /\ InitWFIdle

\* SpecWF follows one job, with the store reachable throughout: the job is
\* created once, then updated.
NextWF ==
    \/ /\ DOMAIN jobs = {}
       /\ \E data \in CreateJobRequests : create_job(data)
    \/ /\ clock <= MaxClock
       /\ \E r \in WFRequests : update_workflow_stage(r.job_id, r.stage_name, r.data)

SpecWF == InitWF /\ [][NextWF]_vars

\* ------------------------------------------- claims on update_workflow_stage

\* The names of the stages a job holds.
StageNamesOf(job) == {job.workflow_stages[i].name : i \in 1..Len(job.workflow_stages)}

\* The requests of WFRequests on a stored job that name no stage of it, or carry
\* a status outside valid_statuses.
InvalidRequests ==
    {r \in WFRequests :
        /\ r.job_id \in DOMAIN jobs
        /\ \/ r.stage_name \notin StageNamesOf(jobs[r.job_id])
           \/ get(r.data, "status", None) \notin {Some(v) : v \in valid_statuses}}

\* C8: update_workflow_stage with a stage name that is none of the job's stages, or
\* with a status outside {pending, in_progress, completed, on_hold}, returns an
\* error and leaves every stored job as it was: a step either does both, or is the
\* step of no such request.
C8_InvalidRequestChangesNothing ==
    [][\/ wf_resp'.code >= 400 /\ jobs' = jobs
       \/ \A r \in InvalidRequests :
             ~update_workflow_stage(r.job_id, r.stage_name, r.data)]_vars

\* C8's case: a request naming an unknown stage of a stored job has been refused.
C8_Witness ==
    /\ 1 \in DOMAIN jobs
    /\ wf_resp.op = "update_workflow_stage"
    /\ wf_resp.message = "Invalid stage name"

\* The statuses of a job's four stages, in order.
StatusesOf(job) == [i \in 1..Len(job.workflow_stages) |-> job.workflow_stages[i].status]

StatusBody(v) == [keys |-> {"status"}, status |-> Some(v)]

\* C9: on a job whose four stages are all pending, update_workflow_stage(cutting,
\* in_progress) leaves cutting in_progress with started_at set (to the time of the
\* request), current_stage cutting, progress_percentage 0 and job status assigned.
C9_FirstStageStarted ==
    [][\A j \in DOMAIN jobs :
          (/\ StatusesOf(jobs[j]) = <<"pending", "pending", "pending", "pending">>
           /\ update_workflow_stage(j, "cutting", StatusBody("in_progress"))) =>
              /\ jobs'[j].workflow_stages[1].status = "in_progress"
              /\ jobs'[j].workflow_stages[1].started_at = Some(clock)
              /\ jobs'[j].current_stage = "cutting"
              /\ jobs'[j].progress_percentage = 0
              /\ jobs'[j].status = "assigned"]_vars

\* C9's case: the first request on a fresh job has set cutting to in_progress.
C9_Witness ==
    /\ 1 \in DOMAIN jobs
    /\ clock = 3
    /\ wf_resp.code = 200 /\ wf_resp.op = "update_workflow_stage"
    /\ wf_resp.stage = "cutting" /\ wf_resp.new_status = "in_progress"
    /\ jobs[1].workflow_stages[1].started_at = Some(2)
    /\ \A i \in 2..4 : jobs[1].workflow_stages[i] = default_stage(stage_names[i], 1)

\* C10: on a job whose cutting stage is in_progress and whose other stages are
\* pending (a fresh job after cutting was set to in_progress), update_workflow_stage(
\* cutting, completed) leaves cutting completed with completed_at set (to the time
\* of the request), current_stage stitching, progress_percentage 25 and job status
\* in_progress.
C10_FirstStageCompleted ==
    [][\A j \in DOMAIN jobs :
          (/\ StatusesOf(jobs[j]) = <<"in_progress", "pending", "pending", "pending">>
           /\ update_workflow_stage(j, "cutting", StatusBody("completed"))) =>
              /\ jobs'[j].workflow_stages[1].status = "completed"
              /\ jobs'[j].workflow_stages[1].completed_at = Some(clock)
              /\ jobs'[j].current_stage = "stitching"
              /\ jobs'[j].progress_percentage = 25
              /\ jobs'[j].status = "in_progress"]_vars

\* C10's case: a fresh job's cutting stage was set to in_progress, then to completed.
C10_Witness ==
    /\ 1 \in DOMAIN jobs
    /\ clock = 4
    /\ wf_resp.code = 200 /\ wf_resp.op = "update_workflow_stage"
    /\ wf_resp.stage = "cutting" /\ wf_resp.new_status = "completed"
    /\ jobs[1].workflow_stages[1].started_at = Some(2)
    /\ jobs[1].workflow_stages[1].completed_at = Some(3)
    /\ \A i \in 2..4 : jobs[1].workflow_stages[i] = default_stage(stage_names[i], 1)

\* -------------------------------------------------------------- SpecStages

\* Well-formed requests on the stored job: each of its four stages with each of
\* the four statuses.
StageRequests ==
    { [job_id |-> 1, stage_name |-> stage_names[i], data |-> StatusBody(v)] :
        i \in 1..Len(stage_names), v \in valid_statuses }

\* SpecStages follows one job through MaxStageUpdates accepted updates: the job
\* is created at clock 1, and every accepted update moves the clock on by one.
NextStages ==
    \/ /\ DOMAIN jobs = {}
       /\ \E data \in CreateJobRequests : create_job(data)
    \/ /\ clock <= MaxStageUpdates + 1
       /\ \E r \in StageRequests : update_workflow_stage(r.job_id, r.stage_name, r.data)

SpecStages == InitWF /\ [][NextStages]_vars

\* The job's last four accepted updates set cutting, stitching, finishing and
\* packaging to completed, in that order: an accepted update stamps completed_at
\* with the clock and moves the clock on by one.
CompletedInOrder(job) ==
    \A i \in 1..4 : job.workflow_stages[i].completed_at = Some(clock - 5 + i)

\* C11: completing cutting, stitching, finishing and packaging in that order with
\* update_workflow_stage ends with progress_percentage 100, current_stage packaging
\* and job status completed.
C11_AllStagesCompleted ==
    \A j \in DOMAIN jobs :
        CompletedInOrder(jobs[j]) =>
            /\ StatusesOf(jobs[j]) = <<"completed", "completed", "completed", "completed">>
            /\ jobs[j].progress_percentage = 100
            /\ jobs[j].current_stage = "packaging"
            /\ jobs[j].status = "completed"

\* C11's case: a fresh job's four stages have been completed in order, by the
\* four requests after its creation.
C11_Witness ==
    /\ 1 \in DOMAIN jobs
    /\ clock = 6
    /\ CompletedInOrder(jobs[1])
    /\ \A i \in 1..4 : jobs[1].workflow_stages[i].started_at = None
    /\ wf_resp.code = 200 /\ wf_resp.stage = "packaging"

\* C12: setting a stage with status pending and started_at null directly to
\* completed is accepted, and afterwards that stage is completed with started_at
\* still null and completed_at set (to the time of the request).
C12_CompletedWithoutStart ==
    [][\A j \in DOMAIN jobs : \A i \in 1..Len(jobs[j].workflow_stages) :
          (/\ jobs[j].workflow_stages[i].status = "pending"
           /\ jobs[j].workflow_stages[i].started_at = None
           /\ update_workflow_stage(j, jobs[j].workflow_stages[i].name,
                                    StatusBody("completed"))) =>
              /\ wf_resp'.code = 200
              /\ jobs'[j].workflow_stages[i].status = "completed"
              /\ jobs'[j].workflow_stages[i].started_at = None
              /\ jobs'[j].workflow_stages[i].completed_at = Some(clock)]_vars

\* C12's case: the first request on a fresh job has set stitching, never started,
\* to completed.
C12_Witness ==
    /\ 1 \in DOMAIN jobs
    /\ clock = 3
    /\ wf_resp.code = 200 /\ wf_resp.op = "update_workflow_stage"
    /\ wf_resp.stage = "stitching" /\ wf_resp.new_status = "completed"
    /\ jobs[1].workflow_stages[2].started_at = None
    /\ jobs[1].workflow_stages[2].completed_at = Some(2)

\* The number of a job's stages whose stored status is completed.
CompletedCount(job) ==
    Cardinality({i \in 1..Len(job.workflow_stages) :
                    job.workflow_stages[i].status = "completed"})

\* C13: the stored progress_percentage equals 100 * (number of the job's stages
\* whose status is completed) / 4, so it is one of 0, 25, 50, 75, 100: in every
\* state, hence after every successful update_workflow_stage.
C13_ProgressIsCompletedShare ==
    \A j \in DOMAIN jobs :
        /\ 4 * jobs[j].progress_percentage = 100 * CompletedCount(jobs[j])
        /\ jobs[j].progress_percentage \in {0, 25, 50, 75, 100}

\* C13's case: three stages were completed and one of them was then set back to
\* pending, which leaves two completed stages and progress 50.
C13_Witness ==
    /\ 1 \in DOMAIN jobs
    /\ clock = 6
    /\ wf_resp.code = 200 /\ wf_resp.op = "update_workflow_stage"
    /\ wf_resp.new_status = "pending"
    /\ CompletedCount(jobs[1]) = 2
    /\ jobs[1].progress_percentage = 50
    /\ \E i \in 1..4 : /\ jobs[1].workflow_stages[i].status = "pending"
                        /\ jobs[1].workflow_stages[i].completed_at # None

\* The positions of a job's stages that are under way, and of those completed.
ActiveStages(job) ==
    {i \in 1..Len(job.workflow_stages) :
        job.workflow_stages[i].status \in {"in_progress", "on_hold"}}
CompletedStages(job) ==
    {i \in 1..Len(job.workflow_stages) : job.workflow_stages[i].status = "completed"}

Least(S) == CHOOSE m \in S : \A k \in S : m <= k
Greatest(S) == CHOOSE m \in S : \A k \in S : k <= m

\* C14 as stated: current_stage is the first stage that is in_progress or on_hold;
\* without one, packaging when all four stages are completed, and otherwise the
\* stage immediately after the last completed stage (nothing is said of a job
\* with no stage completed).
C14_AfterLastCompleted ==
    \A j \in DOMAIN jobs :
        LET job == jobs[j]
        IN IF ActiveStages(job) # {}
           THEN job.current_stage = stage_names[Least(ActiveStages(job))]
           ELSE IF CompletedStages(job) = 1..4
           THEN job.current_stage = "packaging"
           ELSE CompletedStages(job) # {} =>
                   /\ Greatest(CompletedStages(job)) < 4
                   /\ job.current_stage = stage_names[Greatest(CompletedStages(job)) + 1]

\* C14, amended: current_stage is the first stage that is in_progress or on_hold;
\* without one, the stage immediately after the last completed stage among
\* cutting, stitching and finishing, and cutting when none of these three is
\* completed. A completed packaging does not move current_stage, so it is packaging
\* when all four stages are completed.
C14_CurrentStageRule ==
    \A j \in DOMAIN jobs :
        LET job == jobs[j]
            firstThree == CompletedStages(job) \cap (1..3)
        IN IF ActiveStages(job) # {}
           THEN job.current_stage = stage_names[Least(ActiveStages(job))]
           ELSE IF firstThree = {}
           THEN job.current_stage = "cutting"
           ELSE job.current_stage = stage_names[Greatest(firstThree) + 1]

\* C14's case: cutting and packaging are completed, the stages between them are
\* pending, and the update that brought this about stored current_stage stitching.
C14_Witness ==
    /\ 1 \in DOMAIN jobs
    /\ wf_resp.code = 200 /\ wf_resp.op = "update_workflow_stage"
    /\ StatusesOf(jobs[1]) = <<"completed", "pending", "pending", "completed">>
    /\ jobs[1].current_stage = "stitching"
    /\ wf_resp.current_stage = "stitching"

\* C15: the stored job status is completed if progress_percentage is 100,
\* in_progress if it is strictly between 0 and 100, and assigned if it is 0, even
\* when some stage is in_progress or on_hold: in every state, hence after every
\* successful update_workflow_stage.
C15_StatusFollowsProgress ==
    \A j \in DOMAIN jobs :
        /\ jobs[j].progress_percentage = 100 => jobs[j].status = "completed"
        /\ (jobs[j].progress_percentage > 0 /\ jobs[j].progress_percentage < 100) =>
               jobs[j].status = "in_progress"
        /\ jobs[j].progress_percentage = 0 => jobs[j].status = "assigned"

\* C15's case: two updates have put one stage on hold and another in progress,
\* no stage is completed, and the job is still assigned.
C15_Witness ==
    /\ 1 \in DOMAIN jobs
    /\ clock = 4
    /\ wf_resp.code = 200 /\ wf_resp.op = "update_workflow_stage"
    /\ StatusesOf(jobs[1]) = <<"pending", "on_hold", "in_progress", "pending">>
    /\ jobs[1].progress_percentage = 0
    /\ jobs[1].status = "assigned"

\* C16: once a stage's started_at has been set, no later update_workflow_stage
\* changes it, so a stage moved pending -> in_progress -> pending -> in_progress
\* keeps the started_at of its first pending -> in_progress transition.
C16_StartedAtNeverOverwritten ==
    [][\A j \in DOMAIN jobs : \A i \in 1..Len(jobs[j].workflow_stages) :
          jobs[j].workflow_stages[i].started_at # None =>
              jobs'[j].workflow_stages[i].started_at =
                  jobs[j].workflow_stages[i].started_at]_vars

\* C17: a stage's completed_at is non-null exactly when some update_workflow_stage
\* has set that stage's status to completed. A new job's stages have completed_at
\* null; a step changes a stage's completed_at only if it is an accepted update of
\* that stage to completed, and then to the time of the request; and every
\* accepted update of a stage to completed does so.
C17_CompletedAtOnlyOnCompleted ==
    [][/\ \A j \in (DOMAIN jobs') \ (DOMAIN jobs) :
             \A i \in 1..Len(jobs'[j].workflow_stages) :
                 jobs'[j].workflow_stages[i].completed_at = None
       /\ \A j \in DOMAIN jobs : \A i \in 1..Len(jobs[j].workflow_stages) :
             LET before == jobs[j].workflow_stages[i]
                 after == jobs'[j].workflow_stages[i]
             IN /\ after.completed_at # before.completed_at =>
                       /\ wf_resp'.code = 200 /\ wf_resp'.op = "update_workflow_stage"
                       /\ wf_resp'.stage = before.name
                       /\ wf_resp'.new_status = "completed"
                       /\ after.completed_at = Some(clock)
                /\ (/\ wf_resp'.code = 200
                    /\ update_workflow_stage(j, before.name, StatusBody("completed"))) =>
                       /\ after.status = "completed"
                       /\ after.completed_at = Some(clock)]_vars

\* C17's case: cutting was completed and then set back to pending; its
\* completed_at is still the time of the update that completed it, and no other
\* stage has one.
C17_Witness ==
    /\ 1 \in DOMAIN jobs
    /\ clock = 4
    /\ wf_resp.code = 200 /\ wf_resp.op = "update_workflow_stage"
    /\ wf_resp.stage = "cutting" /\ wf_resp.new_status = "pending"
    /\ jobs[1].workflow_stages[1].status = "pending"
    /\ jobs[1].workflow_stages[1].completed_at = Some(2)
    /\ \A i \in 2..4 : jobs[1].workflow_stages[i].completed_at = None

\* ---------------------------------------------------------------- SpecNotes

\* A body with status v that carries notes n and assigned_tailor t, where None
\* stands for a key the body omits.
NoteBody(v, n, t) ==
    [keys |-> {"status"} \cup (IF n = None THEN {} ELSE {"notes"})
                         \cup (IF t = None THEN {} ELSE {"assigned_tailor"}),
     status |-> Some(v), notes |-> n, assigned_tailor |-> t]

\* Bodies with a valid status that carry or omit notes and assigned_tailor.
NoteBodies ==
    { NoteBody(v, n, t) : v \in {"in_progress", "completed"},
                          n \in {None, Some("n1"), Some("n2")},
                          t \in {None, Some("t1"), Some("t2")} }

\* Requests on the first two stages of the stored job.
NoteRequests ==
    { [job_id |-> 1, stage_name |-> n, data |-> d] :
        n \in {"cutting", "stitching"}, d \in NoteBodies }

\* SpecNotes follows one job through MaxNoteUpdates accepted updates.
NextNotes ==
    \/ /\ DOMAIN jobs = {}
       /\ \E data \in CreateJobRequests : create_job(data)
    \/ /\ clock <= MaxNoteUpdates + 1
       /\ \E r \in NoteRequests : update_workflow_stage(r.job_id, r.stage_name, r.data)

SpecNotes == InitWF /\ [][NextNotes]_vars

\* C18: update_workflow_stage changes a stage's notes and assigned_tailor only
\* when the request provides them: an accepted request on a stored job that omits
\* notes leaves the stage's stored notes as they were, and one that omits
\* assigned_tailor leaves the stored assigned_tailor as it was.
C18_OmittedFieldsKept ==
    [][\A r \in NoteRequests :
          (/\ r.job_id \in DOMAIN jobs
           /\ wf_resp'.code = 200
           /\ update_workflow_stage(r.job_id, r.stage_name, r.data)) =>
              LET i == stage_index(jobs[r.job_id].workflow_stages, r.stage_name)
                  before == jobs[r.job_id].workflow_stages[i]
                  after == jobs'[r.job_id].workflow_stages[i]
              IN /\ "notes" \notin r.data.keys => after.notes = before.notes
                 /\ "assigned_tailor" \notin r.data.keys =>
                        after.assigned_tailor = before.assigned_tailor]_vars

\* The half of C18 that holds: an accepted request that omits assigned_tailor
\* leaves the stored assigned_tailor as it was.
AssignedTailorKeptWhenOmitted ==
    [][\A r \in NoteRequests :
          (/\ r.job_id \in DOMAIN jobs
           /\ wf_resp'.code = 200
           /\ "assigned_tailor" \notin r.data.keys
           /\ update_workflow_stage(r.job_id, r.stage_name, r.data)) =>
              LET i == stage_index(jobs[r.job_id].workflow_stages, r.stage_name)
              IN jobs'[r.job_id].workflow_stages[i].assigned_tailor =
                     jobs[r.job_id].workflow_stages[i].assigned_tailor]_vars

\* ------------------------------------------------------------ backfill_jobs

\* Bodies of POST /api/workflow/backfill: dry_run and limit (app.py:2043-2044).
BackfillRequests == { [dry_run |-> d, limit |-> l] : d \in BOOLEAN, l \in {1, 1000} }

RECURSIVE newest_first(_)
\* bills.find().sort('created_at', -1), as the ids of the bills: the store hands
\* out ids in the order of insertion, so the newest bill has the greatest id.
newest_first(ids) ==
    IF ids = {} THEN <<>>
    ELSE LET m == CHOOSE x \in ids : \A y \in ids : y <= x
         IN <<m>> \o newest_first(ids \ {m})

\* The job backfill_jobs inserts for a bill without one (app.py:2068-2088): its
\* stages carry the time the handler started, the job the time of the insert.
backfilled_job(bill_id, current_time_iso, now) ==
    [tailor_id |-> None, bill_id |-> Some(bill_id), status |-> "assigned",
     updated_at |-> now, workflow_stages |-> default_stages(current_time_iso),
     current_stage |-> "cutting", progress_percentage |-> 0]

\* The loop of backfill_jobs goes on with locals c: to the next bill of the
\* cursor, or to the response when the cursor is exhausted (app.py:2093-2100).
backfill_jobs_continue(p, c) ==
    IF c.todo = <<>>
    THEN Respond(p, [op |-> "backfill_jobs", code |-> 200, message |-> "Backfill completed",
                     dry_run |-> c.dry_run, created |-> c.created,
                     skipped_existing |-> c.skipped, scanned |-> c.scanned])
    ELSE /\ pc' = [pc EXCEPT ![p] = "bf_find"]
         /\ call' = [call EXCEPT ![p] = c]
         /\ UNCHANGED resp

\* POST /api/workflow/backfill arrives with body `data`: the handler runs up to
\* the cursor's first batch, which holds the bills the loop will visit
\* (app.py:2036-2053). token_required makes every caller an admin, so the 403
\* branch is never taken.
backfill_jobs_begin(p, data) ==
    /\ pc[p] = "idle"
    /\ nreq < MaxRequests
    /\ nreq' = nreq + 1
    /\ IF ~connected
       THEN Respond(p, [op |-> "backfill_jobs", code |-> 500,
                        message |-> "Database not available"])
       ELSE IF ~db_up
       THEN Respond(p, [op |-> "backfill_jobs", code |-> 500,
                        message |-> "Failed to backfill jobs"])
       ELSE LET found == newest_first(DOMAIN bills)
                batch == SubSeq(found, 1, IF data.limit < Len(found)
                                          THEN data.limit ELSE Len(found))
            IN backfill_jobs_continue(p, [op |-> "backfill_jobs", dry_run |-> data.dry_run,
                                          current_time_iso |-> clock, todo |-> batch,
                                          created |-> 0, skipped |-> 0, scanned |-> 0])
    /\ UNCHANGED <<connected, db_up, idx_state, counters, customers, bills, jobs, next_id, issued>>
    /\ UNCHANGED <<wfVars, fmtVars, upiVars>>

\* One pass of the loop up to the insert: jobs_collection.find_one({'bill_id':
\* bill_id}) for the next bill of the cursor; a bill with a job is skipped, and a
\* dry run only counts (app.py:2055-2066).
backfill_jobs_find(p) ==
    /\ pc[p] = "bf_find"
    /\ LET c == call[p]
           bill_id == Head(c.todo)
           exists == \E j \in DOMAIN jobs : jobs[j].bill_id = Some(bill_id)
       IN IF ~db_up
          THEN Respond(p, [op |-> "backfill_jobs", code |-> 500,
                           message |-> "Failed to backfill jobs"])
          ELSE IF exists
          THEN backfill_jobs_continue(p, [c EXCEPT !.scanned = @ + 1, !.skipped = @ + 1,
                                                   !.todo = Tail(@)])
          ELSE IF c.dry_run
          THEN backfill_jobs_continue(p, [c EXCEPT !.scanned = @ + 1, !.created = @ + 1,
                                                   !.todo = Tail(@)])
          ELSE /\ pc' = [pc EXCEPT ![p] = "bf_insert"]
               /\ call' = [call EXCEPT ![p] = [c EXCEPT !.scanned = @ + 1]]
               /\ UNCHANGED resp
    /\ UNCHANGED <<connected, db_up, idx_state, counters, customers, bills, jobs, next_id,
                   issued, nreq>>
    /\ UNCHANGED <<wfVars, fmtVars, upiVars>>

\* jobs_collection.insert_one(auto_job) for the bill found without a job
\* (app.py:2068-2091).
backfill_jobs_insert(p) ==
    /\ pc[p] = "bf_insert"
    /\ LET c == call[p]
           bill_id == Head(c.todo)
       IN IF ~db_up
          THEN /\ Respond(p, [op |-> "backfill_jobs", code |-> 500,
                              message |-> "Failed to backfill jobs"])
               /\ UNCHANGED <<jobs, next_id>>
          ELSE /\ jobs' = jobs @@ (next_id :> backfilled_job(bill_id, c.current_time_iso, clock))
               /\ next_id' = next_id + 1
               /\ backfill_jobs_continue(p, [c EXCEPT !.created = @ + 1, !.todo = Tail(@)])
    /\ UNCHANGED <<connected, db_up, idx_state, counters, customers, bills, issued, nreq>>
    /\ UNCHANGED <<wfVars, fmtVars, upiVars>>

\* ----------------------------------------------------------------- SpecJobs

\* SpecJobs adds the backfill requests to the requests of Spec.
NextJobs ==
    \/ Next
    \/ \E p \in Procs, data \in BackfillRequests : backfill_jobs_begin(p, data)
    \/ \E p \in Procs : backfill_jobs_find(p)
    \/ \E p \in Procs : backfill_jobs_insert(p)

SpecJobs == Init /\ [][NextJobs]_vars

\* -------------------------------------------------------------- SpecAllJobs

\* The one request handler of SpecAllJobs.
OneHandler == {1}

\* Bodies of POST /api/bills in SpecAllJobs: the complete one, and one that lacks
\* customer_name.
JobBillRequests ==
    {d \in BillRequests : /\ {"customer_id", "items"} \subseteq d.fields
                           /\ d.customer_id = "c1" /\ d.items = "list"}

\* Requests PUT /api/jobs/<job_id>/workflow/<stage_name> in SpecAllJobs: on any
\* stored job, a stage of it and an unknown one, a valid status and an unknown one.
JobRequests ==
    { [job_id |-> j, stage_name |-> n, data |-> d] :
        j \in DOMAIN jobs, n \in {"packaging", "sewing"},
        d \in {StatusBody("completed"), StatusBody("done")} }

\* SpecAllJobs runs create_bill and backfill_jobs requests one after the other
\* on one handler, while the store comes and goes, together with create_job and
\* update_workflow_stage requests on the jobs stored so far.
NextAllJobs ==
    \/ \E p \in OneHandler, data \in JobBillRequests : create_bill_begin(p, data)
    \/ \E p \in OneHandler : create_bill_find_customer(p)
    \/ \E p \in OneHandler : get_next_sequence_atomic(p)
    \/ \E p \in OneHandler : get_next_sequence_raises(p)
    \/ \E p \in OneHandler : get_next_sequence_fallback(p)
    \/ \E p \in OneHandler : create_bill_insert_bill(p)
    \/ \E p \in OneHandler : create_bill_insert_job(p)
    \/ \E p \in OneHandler, data \in BackfillRequests : backfill_jobs_begin(p, data)
    \/ \E p \in OneHandler : backfill_jobs_find(p)
    \/ \E p \in OneHandler : backfill_jobs_insert(p)
    \/ store_flips
    \/ /\ clock <= MaxJobUpdates
       /\ \E data \in CreateJobRequests : create_job(data)
    \/ /\ clock <= MaxJobUpdates
       /\ \E r \in JobRequests : update_workflow_stage(r.job_id, r.stage_name, r.data)

SpecAllJobs == Init /\ [][NextAllJobs]_vars

\* C19: in every reachable state, every job created by create_bill, create_job or
\* backfill_jobs has exactly four workflow stages named cutting, stitching,
\* finishing, packaging in that order, each with a status among pending,
\* in_progress, completed and on_hold, whatever update_workflow_stage requests
\* were made.
C19_FourStagesInOrder ==
    \A j \in DOMAIN jobs :
        /\ Len(jobs[j].workflow_stages) = 4
        /\ [i \in 1..4 |-> jobs[j].workflow_stages[i].name] =
               <<"cutting", "stitching", "finishing", "packaging">>
        /\ \A i \in 1..4 :
               jobs[j].workflow_stages[i].status \in
                   {"pending", "in_progress", "completed", "on_hold"}

\* C19's case: a job inserted by backfill_jobs and a job inserted by create_job
\* are stored, and update_workflow_stage has completed the packaging stage of the
\* backfilled one.
C19_Witness ==
    /\ resp[1].code = 200 /\ resp[1].op = "backfill_jobs" /\ resp[1].created = 1
    /\ wf_resp.code = 200 /\ wf_resp.op = "update_workflow_stage"
    /\ \E j \in DOMAIN jobs : jobs[j].bill_id = None
    /\ \E j \in DOMAIN jobs :
          /\ jobs[j].bill_id # None
          /\ jobs[j].workflow_stages[4].status = "completed"
          /\ jobs[j].current_stage = "cutting"

\* The jobs that reference bill b.
JobsOfBill(b) == {j \in DOMAIN jobs : jobs[j].bill_id = Some(b)}

\* The create_bill request that stored bill b has completed: no handler is still
\* between its insert of b and its response.
CreateBillCompleted(b) ==
    \A p \in Procs : ~(pc[p] = "cb_insert_job" /\ call[p].bill_id = b)

\* C20: every bill stored by a successful create_bill has exactly one job
\* referencing it once the request has completed, under any interleaving with
\* other create_bill and backfill_jobs requests, and that job has all stages
\* pending, current_stage cutting, progress 0 and status assigned.
C20_OneJobPerBill ==
    \A b \in DOMAIN bills :
        CreateBillCompleted(b) =>
            /\ Cardinality(JobsOfBill(b)) = 1
            /\ \A j \in JobsOfBill(b) :
                  /\ StatusesOf(jobs[j]) = <<"pending", "pending", "pending", "pending">>
                  /\ jobs[j].current_stage = "cutting"
                  /\ jobs[j].progress_percentage = 0
                  /\ jobs[j].status = "assigned"

\* ------------------------------------------------- claims on derived fields

\* The positions of a job's stages that are not completed.
OpenStages(job) ==
    {i \in 1..Len(job.workflow_stages) : job.workflow_stages[i].status # "completed"}

valid_job_statuses == {"assigned", "in_progress", "completed", "delivered", "cancelled"}

\* A plausible slip: a job set to completed is also given full progress.
job_with_status_and_progress(job, status, now) ==
    [job EXCEPT !.status = status, !.updated_at = now,
                !.progress_percentage = IF status = "completed" THEN 100 ELSE @]

\* The job document after the $set of app.py:1758-1765.
job_with_status(job, status, now) ==
    [job EXCEPT !.status = status, !.updated_at = now]

\* PUT /api/jobs/<job_id>/status with body `data`, the whole handler
\* (app.py:1743-1774). update_one matches no document for an unknown job.
update_job_status(job_id, data) ==
    LET status == get(data, "status", None)
        Reply(r) == wf_resp' = r /\ UNCHANGED <<jobs, clock>>
    IN
    /\ IF ~connected
       THEN Reply([op |-> "update_job_status", code |-> 200,
                   message |-> "Job status updated successfully (demo mode)"])
       ELSE IF ~truthy(status)
       THEN Reply([op |-> "update_job_status", code |-> 400, message |-> "Status is required"])
       ELSE IF status[1] \notin valid_job_statuses
       THEN Reply([op |-> "update_job_status", code |-> 400, message |-> "Invalid status"])
       ELSE IF ~db_up
       THEN Reply([op |-> "update_job_status", code |-> 500,
                   message |-> "Failed to update job status"])
       ELSE IF job_id \notin DOMAIN jobs
       THEN Reply([op |-> "update_job_status", code |-> 404, message |-> "Job not found"])
       ELSE /\ jobs' = [jobs EXCEPT ![job_id] = job_with_status(@, status[1], clock)]
            /\ clock' = clock + 1
            /\ wf_resp' = [op |-> "update_job_status", code |-> 200,
                           message |-> "Job status updated successfully",
                           job_id |-> job_id, new_status |-> status[1]]
    /\ UNCHANGED <<connected, db_up, idx_state, counters, customers, bills, next_id,
                   pc, call, resp, issued, nreq>>
    /\ UNCHANGED <<fmtVars, upiVars>>

\* --------------------------------------------------------------- SpecStatus

\* Requests PUT /api/jobs/<job_id>/status: on the stored job each of the five
\* statuses, an unknown one and a body without status; and one on an unknown job.
StatusRequests ==
    { [job_id |-> 1, data |-> StatusBody(v)] : v \in valid_job_statuses \cup {"done"} }
        \cup { [job_id |-> 1, data |-> [keys |-> {}]],
               [job_id |-> 9, data |-> StatusBody("delivered")] }

\* Stage updates in SpecStatus: the first two stages, started or completed.
StatusStageRequests ==
    { [job_id |-> 1, stage_name |-> n, data |-> StatusBody(v)] :
        n \in {"cutting", "stitching"}, v \in {"in_progress", "completed"} }

\* SpecStatus follows one job under both handlers that store its status.
NextStatus ==
    \/ /\ DOMAIN jobs = {}
       /\ \E data \in CreateJobRequests : create_job(data)
    \/ /\ clock <= MaxStatusClock
       /\ \E r \in StatusStageRequests :
             update_workflow_stage(r.job_id, r.stage_name, r.data)
    \/ /\ clock <= MaxStatusClock
       /\ \E r \in StatusRequests : update_job_status(r.job_id, r.data)

SpecStatus == InitWF /\ [][NextStatus]_vars

\* C22: in every reachable state, after any sequence of update_workflow_stage and
\* update_job_status calls, a job's stored status is the one derived from its
\* progress: assigned at 0, in_progress strictly between 0 and 100, completed at
\* 100.
C22_StatusAlwaysDerived ==
    \A j \in DOMAIN jobs :
        jobs[j].status =
            IF jobs[j].progress_percentage = 100 THEN "completed"
            ELSE IF jobs[j].progress_percentage > 0 THEN "in_progress"
            ELSE "assigned"

\* C29: update_job_status changes only the job's status and updated_at: it leaves
\* every job's workflow_stages, current_stage and progress_percentage, and every
\* other job, as they were; and with a status outside {assigned, in_progress,
\* completed, delivered, cancelled}, or an unknown job, it changes no job at all.
C29_UpdateJobStatusFrame ==
    [][\A r \in StatusRequests :
          update_job_status(r.job_id, r.data) =>
              /\ DOMAIN jobs' = DOMAIN jobs
              /\ \A j \in DOMAIN jobs :
                    /\ jobs'[j].workflow_stages = jobs[j].workflow_stages
                    /\ jobs'[j].current_stage = jobs[j].current_stage
                    /\ jobs'[j].progress_percentage = jobs[j].progress_percentage
                    /\ jobs'[j].tailor_id = jobs[j].tailor_id
                    /\ jobs'[j].bill_id = jobs[j].bill_id
                    /\ j # r.job_id => jobs'[j] = jobs[j]
              /\ (\/ r.job_id \notin DOMAIN jobs
                  \/ get(r.data, "status", None) \notin
                         {Some(v) : v \in {"assigned", "in_progress", "completed",
                                           "delivered", "cancelled"}}) =>
                     jobs' = jobs
              /\ wf_resp'.message = "Job status updated successfully" =>
                     /\ jobs'[r.job_id].status = r.data.status[1]
                     /\ jobs'[r.job_id].updated_at = clock]_vars

\* C29's case: cutting was completed (progress 25), and update_job_status then set
\* the job to completed: the stages, current_stage and the progress are those the
\* stage update left.
C29_Witness ==
    /\ 1 \in DOMAIN jobs
    /\ clock = 4
    /\ wf_resp.code = 200 /\ wf_resp.op = "update_job_status"
    /\ wf_resp.message = "Job status updated successfully"
    /\ jobs[1].status = "completed"
    /\ jobs[1].updated_at = 3
    /\ jobs[1].progress_percentage = 25
    /\ jobs[1].current_stage = "stitching"
    /\ jobs[1].workflow_stages[1].completed_at = Some(2)

\* C23: a stage that enters in_progress, from whatever previous status, has its
\* started_at set if it was unset, so no stage ever has status in_progress with
\* started_at null.
C23_InProgressHasStartedAt ==
    \A j \in DOMAIN jobs : \A i \in 1..Len(jobs[j].workflow_stages) :
        jobs[j].workflow_stages[i].status = "in_progress" =>
            jobs[j].workflow_stages[i].started_at # None

\* C26: a successful update_workflow_stage on stage s, run without concurrent
\* requests, leaves every field (status, started_at, completed_at, assigned_tailor,
\* notes, updated_at) of the job's other three stages as it was.
C26_OtherStagesUnchanged ==
    [][\A r \in NoteRequests :
          (/\ r.job_id \in DOMAIN jobs
           /\ wf_resp'.code = 200
           /\ update_workflow_stage(r.job_id, r.stage_name, r.data)) =>
              /\ Len(jobs'[r.job_id].workflow_stages) = Len(jobs[r.job_id].workflow_stages)
              /\ \A i \in 1..Len(jobs[r.job_id].workflow_stages) :
                    jobs[r.job_id].workflow_stages[i].name # r.stage_name =>
                        jobs'[r.job_id].workflow_stages[i] =
                            jobs[r.job_id].workflow_stages[i]]_vars

\* C26's case: cutting was started with notes and a tailor, then stitching was
\* updated; cutting still holds what the first update stored.
C26_Witness ==
    /\ 1 \in DOMAIN jobs
    /\ clock = 4
    /\ wf_resp.code = 200 /\ wf_resp.op = "update_workflow_stage"
    /\ wf_resp.stage = "stitching"
    /\ jobs[1].workflow_stages[1] =
          [name |-> "cutting", status |-> "in_progress", started_at |-> Some(2),
           completed_at |-> None, assigned_tailor |-> Some("t1"), notes |-> Some("n1"),
           updated_at |-> Some(2)]
    /\ jobs[1].workflow_stages[2].updated_at = Some(3)

\* ------------------------------------------------ delete_job, delete_customer

\* DELETE /api/jobs/<job_id>, the whole handler (app.py:1779-1793): one
\* delete_one round trip.
delete_job(job_id) ==
    /\ IF ~connected
       THEN /\ wf_resp' = [op |-> "delete_job", code |-> 200,
                           message |-> "Job deleted (demo mode)"]
            /\ UNCHANGED jobs
       ELSE IF ~db_up
       THEN /\ wf_resp' = [op |-> "delete_job", code |-> 500,
                           message |-> "Failed to delete job"]
            /\ UNCHANGED jobs
       ELSE IF job_id \notin DOMAIN jobs
       THEN /\ wf_resp' = [op |-> "delete_job", code |-> 404, message |-> "Job not found"]
            /\ UNCHANGED jobs
       ELSE /\ jobs' = [j \in (DOMAIN jobs) \ {job_id} |-> jobs[j]]
            /\ wf_resp' = [op |-> "delete_job", code |-> 200,
                           message |-> "Job deleted successfully"]
    /\ UNCHANGED <<connected, db_up, idx_state, counters, customers, bills, next_id,
                   pc, call, resp, issued, nreq, clock>>
    /\ UNCHANGED <<fmtVars, upiVars>>

\* DELETE /api/customers/<customer_id>, the whole handler (app.py:595-651), with
\* the store in one condition for all its round trips: the customer is deleted,
\* then the jobs of their bills, then their bills.
delete_customer(customer_id) ==
    /\ IF ~connected
       THEN /\ wf_resp' = [op |-> "delete_customer", code |-> 200,
                           message |-> "Customer deleted successfully (demo mode)"]
            /\ UNCHANGED <<customers, bills, jobs>>
       ELSE IF customer_id \notin ObjectIdStrings
       THEN /\ wf_resp' = [op |-> "delete_customer", code |-> 400,
                           message |-> "Invalid customer ID format"]
            /\ UNCHANGED <<customers, bills, jobs>>
       ELSE IF ~db_up
       THEN /\ wf_resp' = [op |-> "delete_customer", code |-> 500,
                           message |-> "Failed to delete customer"]
            /\ UNCHANGED <<customers, bills, jobs>>
       ELSE IF customer_id \notin customers
       THEN /\ wf_resp' = [op |-> "delete_customer", code |-> 404,
                           message |-> "Customer not found"]
            /\ UNCHANGED <<customers, bills, jobs>>
       ELSE LET bill_ids == {b \in DOMAIN bills : bills[b].customer_id = customer_id}
                job_ids == {j \in DOMAIN jobs :
                               \E b \in bill_ids : jobs[j].bill_id = Some(b)}
            IN /\ customers' = customers \ {customer_id}
               /\ jobs' = [j \in (DOMAIN jobs) \ job_ids |-> jobs[j]]
               /\ bills' = [b \in (DOMAIN bills) \ bill_ids |-> bills[b]]
               /\ wf_resp' = [op |-> "delete_customer", code |-> 200,
                              message |-> "Customer and related data deleted successfully",
                              deleted_bills |-> Cardinality(bill_ids),
                              deleted_jobs |-> Cardinality(job_ids)]
    /\ UNCHANGED <<connected, db_up, idx_state, counters, next_id,
                   pc, call, resp, issued, nreq, clock>>
    /\ UNCHANGED <<fmtVars, upiVars>>

\* -------------------------------------------------------------- SpecCounters

\* SpecCounters runs the requests of Spec one after the other on one handler,
\* while the store comes and goes and the index thread runs, together with the
\* handlers that delete jobs and customers.
NextCounters ==
    \/ \E p \in OneHandler, name \in CounterNames : get_next_sequence_begin(p, name)
    \/ \E p \in OneHandler : get_next_sequence_atomic(p)
    \/ \E p \in OneHandler : get_next_sequence_raises(p)
    \/ \E p \in OneHandler : get_next_sequence_fallback(p)
    \/ \E p \in OneHandler, data \in BillRequests : create_bill_begin(p, data)
    \/ \E p \in OneHandler : create_bill_find_customer(p)
    \/ \E p \in OneHandler : create_bill_insert_bill(p)
    \/ \E p \in OneHandler : create_bill_insert_job(p)
    \/ create_indexes
    \/ store_flips
    \/ \E job_id \in DOMAIN jobs \cup {9} : delete_job(job_id)
    \/ \E customer_id \in {"c1", "c9", "bad"} : delete_customer(customer_id)

SpecCounters == Init /\ [][NextCounters]_vars

\* C27: a counter's stored value never decreases and is changed only by
\* get_next_sequence, by exactly +1 per successful round trip on that name; no
\* other operation changes it, and allocating from one counter name never changes
\* another name's counter. Every step that changes a counter is the atomic
\* increment of one handler's get_next_sequence call: it adds 1 to the counter of
\* the name that call was made with, returns the new value, and leaves every other
\* counter as it was.
C27_CounterFrame ==
    [][\A name \in DOMAIN counters :
          counters'[name] # counters[name] =>
              /\ DOMAIN counters' = DOMAIN counters
              /\ counters'[name] = counters[name] + 1
              /\ \A other \in (DOMAIN counters) \ {name} :
                    counters'[other] = counters[other]
              /\ \E p \in Procs :
                    /\ pc[p] = "gns" /\ call[p].name = name
                    /\ Len(issued') = Len(issued) + 1
                    /\ issued'[Len(issued')].name = name
                    /\ issued'[Len(issued')].value = counters'[name]
                    /\ issued'[Len(issued')].proc = p
              /\ <<customers', bills', jobs'>> = <<customers, bills, jobs>>]_vars

\* C27's case: a bill was created with number 1, the customer was then deleted
\* with the bill and its job, and the bill_no counter is still 1; the other
\* counter was never touched.
C27_Witness ==
    /\ counters["bill_no"] = 1
    /\ counters["x"] = 0
    /\ Len(issued) = 1 /\ issued[1].via = "atomic" /\ issued[1].op = "create_bill"
    /\ wf_resp.code = 200 /\ wf_resp.op = "delete_customer"
    /\ wf_resp.deleted_bills = 1 /\ wf_resp.deleted_jobs = 1
    /\ DOMAIN bills = {} /\ DOMAIN jobs = {}

\* ------------------------------------------------------ claims on create_bill

\* C28: a create_bill request that is rejected for invalid input (a required field
\* is missing, the customer id is malformed, the customer is unknown, items is
\* empty or not a list) allocates no bill number and stores no bill and no job.
\* The step in which a handler answers 400 or 404 to create_bill changes no
\* counter, bill or job and records no allocation, and that handler has made no
\* call of get_next_sequence for the request.
C28_RejectedAllocatesNothing ==
    [][\A p \in Procs :
          (/\ resp'[p].code \in {400, 404}
           /\ resp'[p].op = "create_bill"
           /\ \/ pc[p] # "idle" /\ pc'[p] = "idle"
              \/ \E data \in BillRequests : create_bill_begin(p, data)) =>
              /\ counters' = counters
              /\ bills' = bills
              /\ jobs' = jobs
              /\ issued' = issued
              /\ pc[p] \in {"idle", "cb_find_customer"}
              /\ pc[p] = "cb_find_customer" =>
                    call[p].next_no = 0 /\ call[p].alloc_at = 0]_vars

\* C28's case: a handler has answered 404 to a create_bill for an unknown
\* customer while the other handler's create_bill had allocated bill number 1.
C28_Witness ==
    /\ \E p \in Procs :
          /\ resp[p].code = 404 /\ resp[p].op = "create_bill"
          /\ pc[p] = "idle"
    /\ counters["bill_no"] = 1
    /\ Len(issued) = 1 /\ issued[1].op = "create_bill" /\ issued[1].via = "atomic"
    /\ \A i \in 1..Len(issued) : resp[issued[i].proc].code # 404

\* ------------------------------- update_workflow_stage, by concurrent handlers

\* A plausible slip: the write touches only the stage the request names (a
\* positional update), with the derived fields the handler computed.
set_workflow_own_stage(stored, computed, now) ==
    [stored EXCEPT !.workflow_stages =
                       [@ EXCEPT ![computed.i] = computed.workflow_stages[computed.i]],
                   !.current_stage = computed.current_stage,
                   !.progress_percentage = computed.progress_percentage,
                   !.status = computed.status,
                   !.updated_at = now]

\* A plausible slip: progress_percentage is left out of the $set.
set_workflow_without_progress(stored, computed, now) ==
    [stored EXCEPT !.workflow_stages = computed.workflow_stages,
                   !.current_stage = computed.current_stage,
                   !.status = computed.status,
                   !.updated_at = now]

\* The stored job after update_one's $set (app.py:1926-1938) of the values a
\* handler has computed: the whole stage list and the three derived fields.
set_workflow(stored, computed, now) ==
    [stored EXCEPT !.workflow_stages = computed.workflow_stages,
                   !.current_stage = computed.current_stage,
                   !.progress_percentage = computed.progress_percentage,
                   !.status = computed.status,
                   !.updated_at = now]

\* The request arrives at handler p, which runs up to and including its
\* jobs_collection.find_one and computes, from the job it has read, the stage
\* list and the derived fields it will write (app.py:1846-1924).
update_workflow_stage_read(p, job_id, stage_name, data) ==
    LET new_status == get(data, "status", None)
        notes == get(data, "notes", Some(""))
        assigned_tailor == get(data, "assigned_tailor", None)
    IN
    /\ pc[p] = "idle"
    /\ nreq < MaxRequests
    /\ nreq' = nreq + 1
    /\ IF ~connected
       THEN Respond(p, [op |-> "update_workflow_stage", code |-> 200,
                        message |-> "Database not available (demo mode)"])
       ELSE IF ~truthy(new_status)
       THEN Respond(p, [op |-> "update_workflow_stage", code |-> 400,
                        message |-> "Status is required"])
       ELSE IF ~is_valid_status(new_status)
       THEN Respond(p, [op |-> "update_workflow_stage", code |-> 400,
                        message |-> "Invalid status"])
       ELSE IF ~db_up
       THEN Respond(p, [op |-> "update_workflow_stage", code |-> 500,
                        message |-> "Failed to update workflow stage"])
       ELSE IF job_id \notin DOMAIN jobs
       THEN Respond(p, [op |-> "update_workflow_stage", code |-> 404,
                        message |-> "Job not found"])
       ELSE LET job == jobs[job_id]
                i == stage_index(job.workflow_stages, stage_name)
            IN IF i = 0
               THEN Respond(p, [op |-> "update_workflow_stage", code |-> 400,
                                message |-> "Invalid stage name"])
               ELSE LET workflow_stages ==
                            [job.workflow_stages EXCEPT
                                ![i] = updated_stage(@, new_status[1], notes,
                                                     assigned_tailor, clock)]
                    IN /\ pc' = [pc EXCEPT ![p] = "uws_write"]
                       /\ call' = [call EXCEPT ![p] =
                              [op |-> "update_workflow_stage", job_id |-> job_id,
                               stage_name |-> stage_name, new_status |-> new_status[1],
                               job |-> job, i |-> i,
                               workflow_stages |-> workflow_stages,
                               current_stage |-> current_stage_of(workflow_stages),
                               progress_percentage |-> progress_of(workflow_stages),
                               status |-> overall_status_of(progress_of(workflow_stages))]]
                       /\ UNCHANGED resp
    /\ UNCHANGED <<connected, db_up, idx_state, counters, customers, bills, jobs, next_id, issued>>
    /\ UNCHANGED <<wfVars, fmtVars, upiVars>>

\* Handler p's jobs_collection.update_one and its response (app.py:1926-1946).
\* matched_count is not looked at, so a job deleted meanwhile is answered 200 too.
update_workflow_stage_write(p) ==
    /\ pc[p] = "uws_write"
    /\ IF ~db_up
       THEN /\ Respond(p, [op |-> "update_workflow_stage", code |-> 500,
                           message |-> "Failed to update workflow stage"])
            /\ UNCHANGED <<jobs, clock>>
       ELSE /\ jobs' = IF call[p].job_id \in DOMAIN jobs
                       THEN [jobs EXCEPT ![call[p].job_id] = set_workflow(@, call[p], clock)]
                       ELSE jobs
            /\ clock' = clock + 1
            /\ Respond(p, [op |-> "update_workflow_stage", code |-> 200,
                           message |-> "Workflow stage updated successfully",
                           stage |-> call[p].stage_name, new_status |-> call[p].new_status,
                           current_stage |-> call[p].current_stage,
                           progress_percentage |-> call[p].progress_percentage])
    /\ UNCHANGED <<connected, db_up, idx_state, counters, customers, bills, next_id,
                   issued, nreq, wf_resp>>
    /\ UNCHANGED <<fmtVars, upiVars>>

\* ----------------------------------------------------------------- SpecRace

\* Requests in SpecRace: on the stored job, each stage started or completed, and
\* one that names no stage.
RaceRequests ==
    { [job_id |-> 1, stage_name |-> stage_names[i], data |-> StatusBody(v)] :
        i \in 1..Len(stage_names), v \in {"in_progress", "completed"} }
        \cup { [job_id |-> 1, stage_name |-> "sewing", data |-> StatusBody("completed")] }

\* SpecRace creates one job and lets the handlers update its stages concurrently.
NextRace ==
    \/ /\ DOMAIN jobs = {}
       /\ \E data \in CreateJobRequests : create_job(data)
    \/ \E p \in Procs, r \in RaceRequests :
          update_workflow_stage_read(p, r.job_id, r.stage_name, r.data)
    \/ \E p \in Procs : update_workflow_stage_write(p)

SpecRace == Init /\ [][NextRace]_vars

\* C24: the write of a handler replaces the job's whole stage list by the one it
\* computed from its own read: every stage but the one it was asked to change goes
\* back to what the handler read, whatever another request has stored since, and
\* the handler answers 200 as if nothing had happened.
C24_WriteRestoresStagesRead ==
    [][\A p \in Procs :
          (update_workflow_stage_write(p) /\ db_up /\ call[p].job_id \in DOMAIN jobs)
            => /\ resp'[p].code = 200
               /\ \A k \in 1..Len(stage_names) :
                     k # call[p].i =>
                        jobs'[call[p].job_id].workflow_stages[k]
                            = call[p].job.workflow_stages[k]]_vars

\* Both handlers have answered 200, one for starting cutting and one for starting
\* stitching, and the stored job has stitching in progress and cutting still pending.
C24_Witness ==
    \E p, q \in Procs :
        /\ p # q
        /\ pc[p] = "idle" /\ pc[q] = "idle"
        /\ resp[p].code = 200 /\ resp[p].op = "update_workflow_stage"
        /\ resp[q].code = 200 /\ resp[q].op = "update_workflow_stage"
        /\ "stage" \in DOMAIN resp[p] /\ "stage" \in DOMAIN resp[q]
        /\ resp[p].stage = "cutting" /\ resp[p].new_status = "in_progress"
        /\ resp[q].stage = "stitching" /\ resp[q].new_status = "in_progress"
        /\ 1 \in DOMAIN jobs
        /\ jobs[1].workflow_stages[1].status = "pending"
        /\ jobs[1].workflow_stages[2].status = "in_progress"

\* C25: under any interleaving of the handlers' reads and writes, the stored
\* progress_percentage is the share of stored stages that are completed, the stored
\* status is the one that progress gives, and the stored current_stage is the one
\* the stage statuses give.
C25_DerivedFieldsMatchStages ==
    \A j \in DOMAIN jobs :
        LET job == jobs[j]
            done == CompletedStages(job)
            active == ActiveStages(job)
            moved == { k \in done : k < Len(stage_names) }
        IN /\ Len(job.workflow_stages) * job.progress_percentage = 100 * Cardinality(done)
           /\ job.status = IF job.progress_percentage = 100 THEN "completed"
                            ELSE IF job.progress_percentage > 0 THEN "in_progress"
                            ELSE "assigned"
           /\ job.current_stage =
                 IF active # {} THEN stage_names[Least(active)]
                 ELSE IF moved = {} THEN stage_names[1]
                 ELSE stage_names[Greatest(moved) + 1]

\* Two handlers have each answered 200 with progress 25 for completing a different
\* stage; the stored job has one completed stage and progress 25.
C25_Witness ==
    \E p, q \in Procs :
        /\ p # q
        /\ pc[p] = "idle" /\ pc[q] = "idle"
        /\ resp[p].code = 200 /\ resp[q].code = 200
        /\ "stage" \in DOMAIN resp[p] /\ "stage" \in DOMAIN resp[q]
        /\ resp[p].stage # resp[q].stage
        /\ resp[p].new_status = "completed" /\ resp[q].new_status = "completed"
        /\ resp[p].progress_percentage = 25 /\ resp[q].progress_percentage = 25
        /\ 1 \in DOMAIN jobs
        /\ jobs[1].progress_percentage = 25
        /\ Cardinality({ k \in 1..4 : jobs[1].workflow_stages[k].status = "completed" }) = 1

\* ------------------------------------------------------------ UPI settings

\* The values get_upi_settings answers with when no settings document is stored
\* (app.py:1010-1014).
default_upi == [upi_id |-> "startailors@paytm", business_name |-> "Star Tailors"]

\* The result get_upi_settings builds from what find_one returned
\* (app.py:1010-1020); a stored document always holds both fields.
upi_result(found) ==
    IF found = None THEN default_upi
    ELSE [upi_id |-> found[1].upi_id, business_name |-> found[1].business_name]

\* No handler is between update_one and cache.pop of update_upi_settings.
NoUpdateInFlight == \A q \in Procs : pc[q] # "upi_pop"

\* get_upi_settings arrives at handler p and looks into the cache
\* (app.py:999-1004): a cached entry is the answer. The call keeps, as history,
\* whether every update that has written has also completed, and how many wrote.
get_upi_settings_lookup(p) ==
    /\ pc[p] = "idle"
    /\ nreq < MaxUpiRequests
    /\ nreq' = nreq + 1
    /\ IF cache # None
       THEN Respond(p, [op |-> "get_upi_settings", code |-> 200,
                        upi_id |-> cache[1].upi_id,
                        business_name |-> cache[1].business_name])
       ELSE /\ pc' = [pc EXCEPT ![p] = "upi_find"]
            /\ call' = [call EXCEPT ![p] =
                   [op |-> "get_upi_settings", found |-> None,
                    after_update |-> (upi_writes > 0 /\ NoUpdateInFlight),
                    writes_seen |-> upi_writes]]
            /\ UNCHANGED resp
    /\ UNCHANGED <<connected, db_up, idx_state, counters, customers, bills, jobs, next_id, issued>>
    /\ UNCHANGED <<wfVars, fmtVars, upiVars>>

\* Handler p's settings_collection.find_one (app.py:1006-1008); without a
\* collection there is nothing to read.
get_upi_settings_find(p) ==
    /\ pc[p] = "upi_find"
    /\ IF connected /\ ~db_up
       THEN Respond(p, [op |-> "get_upi_settings", code |-> 500,
                        message |-> "Failed to get UPI settings"])
       ELSE /\ pc' = [pc EXCEPT ![p] = "upi_store"]
            /\ call' = [call EXCEPT ![p].found = IF connected THEN settings ELSE None]
            /\ UNCHANGED resp
    /\ UNCHANGED <<connected, db_up, idx_state, counters, customers, bills, jobs, next_id,
                   issued, nreq>>
    /\ UNCHANGED <<wfVars, fmtVars, upiVars>>

\* Handler p puts its result into the cache and answers with it
\* (app.py:1010-1020).
get_upi_settings_store(p) ==
    /\ pc[p] = "upi_store"
    /\ cache' = Some(upi_result(call[p].found))
    /\ Respond(p, [op |-> "get_upi_settings", code |-> 200,
                   upi_id |-> upi_result(call[p].found).upi_id,
                   business_name |-> upi_result(call[p].found).business_name])
    /\ UNCHANGED <<connected, db_up, idx_state, counters, customers, bills, jobs, next_id,
                   issued, nreq, settings, upi_writes>>
    /\ UNCHANGED <<wfVars, fmtVars>>

\* update_upi_settings arrives at handler p, which runs up to and including its
\* update_one with upsert (app.py:1029-1059).
update_upi_settings_write(p, data) ==
    LET upi_id == get(data, "upi_id", None)
        business_name == get(data, "business_name", None)
    IN
    /\ pc[p] = "idle"
    /\ nreq < MaxUpiRequests
    /\ nreq' = nreq + 1
    /\ IF ~connected
       THEN /\ Respond(p, [op |-> "update_upi_settings", code |-> 200,
                           message |-> "UPI settings updated successfully (demo mode)"])
            /\ UNCHANGED <<settings, upi_writes>>
       ELSE IF ~truthy(upi_id) \/ ~truthy(business_name)
       THEN /\ Respond(p, [op |-> "update_upi_settings", code |-> 400,
                           message |-> "UPI ID and business name are required"])
            /\ UNCHANGED <<settings, upi_writes>>
       ELSE IF ~db_up
       THEN /\ Respond(p, [op |-> "update_upi_settings", code |-> 500,
                           message |-> "Failed to update UPI settings"])
            /\ UNCHANGED <<settings, upi_writes>>
       ELSE /\ settings' = Some([upi_id |-> upi_id[1], business_name |-> business_name[1],
                                 updated_at |-> clock])
            /\ upi_writes' = upi_writes + 1
            /\ pc' = [pc EXCEPT ![p] = "upi_pop"]
            /\ call' = [call EXCEPT ![p] = [op |-> "update_upi_settings"]]
            /\ UNCHANGED resp
    /\ UNCHANGED <<connected, db_up, idx_state, counters, customers, bills, jobs, next_id,
                   issued, cache>>
    /\ UNCHANGED <<wfVars, fmtVars>>

\* Handler p's cache.pop and its response (app.py:1061-1064).
update_upi_settings_pop(p) ==
    /\ pc[p] = "upi_pop"
    /\ cache' = None
    /\ Respond(p, [op |-> "update_upi_settings", code |-> 200,
                   message |-> "UPI settings updated successfully"])
    /\ UNCHANGED <<connected, db_up, idx_state, counters, customers, bills, jobs, next_id,
                   issued, nreq, settings, upi_writes>>
    /\ UNCHANGED <<wfVars, fmtVars>>

\* The cached entry reaches its time to live (ttl=300, app.py:56) and is gone.
cache_expires ==
    /\ cache # None
    /\ cache' = None
    /\ UNCHANGED <<seqVars, settings, upi_writes>>
    /\ UNCHANGED <<wfVars, fmtVars>>

\* ------------------------------------------------------------------ SpecUpi

\* Bodies of PUT /api/settings/upi: two complete ones, one with an empty upi_id
\* and one without business_name.
UpiBodies ==
    { [keys |-> {"upi_id", "business_name"},
       upi_id |-> Some("shop@upi"), business_name |-> Some("Shop")],
      [keys |-> {"upi_id", "business_name"},
       upi_id |-> Some("new@upi"), business_name |-> Some("New Shop")],
      [keys |-> {"upi_id", "business_name"},
       upi_id |-> Some(""), business_name |-> Some("Shop")],
      [keys |-> {"upi_id"},
       upi_id |-> Some("shop@upi"), business_name |-> None] }

NextUpi ==
    \/ \E p \in Procs : get_upi_settings_lookup(p)
    \/ \E p \in Procs : get_upi_settings_find(p)
    \/ \E p \in Procs : get_upi_settings_store(p)
    \/ \E p \in Procs, data \in UpiBodies : update_upi_settings_write(p, data)
    \/ \E p \in Procs : update_upi_settings_pop(p)
    \/ cache_expires
    \/ store_flips

SpecUpi == Init /\ [][NextUpi]_vars

\* C30: a get_upi_settings request that arrives when some update_upi_settings has
\* written and every such update has completed, and during which no other update
\* writes, answers with the upi_id and business_name that are stored, whether it
\* answers from the cache or from the store.
C30_LaterGetReturnsUpdate ==
    [][\A p \in Procs :
          /\ (get_upi_settings_lookup(p) /\ cache # None
                 /\ upi_writes > 0 /\ NoUpdateInFlight)
               => /\ resp'[p].upi_id = settings[1].upi_id
                  /\ resp'[p].business_name = settings[1].business_name
          /\ (get_upi_settings_store(p) /\ call[p].after_update
                 /\ call[p].writes_seen = upi_writes)
               => /\ resp'[p].upi_id = settings[1].upi_id
                  /\ resp'[p].business_name = settings[1].business_name]_vars

====
